---- MODULE Spec2Model ----
(***************************************************************************)
(* The DQN family of mushroom/algorithms/value/dqn.py: DQN, DoubleDQN,     *)
(* AveragedDQN and WeightedDQN.                                            *)
(*                                                                         *)
(* Three specifications share the variables below.                         *)
(*   SpecFit     the training side of an agent: initialize and fit, with   *)
(*               the replay memory, n_updates, the train parameters and    *)
(*               the target slots;                                         *)
(*   SpecEpisode the acting side: episode_start and draw_action, with the  *)
(*               frame buffer, episode_steps and no_op_actions;            *)
(*   SpecNextQ   _next_q and the bootstrap target of fit, applied to one   *)
(*               sample of a minibatch whose predictions are drawn from    *)
(*               bounded sets.                                             *)
(* fit and draw_action share no field of the agent, so Spec, which         *)
(* interleaves all of them, is the product of SpecFit and SpecEpisode.     *)
(*                                                                         *)
(* Parameters of an approximator are opaque to the algorithm: they are     *)
(* modelled by the number of the update that produced them (0 for the      *)
(* parameters the train approximator is constructed with).  Predictions    *)
(* are modelled in SpecNextQ as arbitrary Q-vectors.  Reals are exact      *)
(* rationals [num, den]; floating-point rounding is not modelled.          *)
(***************************************************************************)
EXTENDS Integers, Sequences, FiniteSets

VARIABLES
  params,                   \* the configuration the agent was constructed with
  names,                    \* the name each approximator was constructed with
  initialized,              \* DQN.initialize has bound the replay memory
  replay_size,              \* transitions stored in self._replay_memory
  n_updates,                \* self._n_updates
  train,                    \* parameters of self.approximator
  target,                   \* parameters of self.target_approximator, per slot
  n_fitted_target_models,   \* self._n_fitted_target_models (None for DQN, DoubleDQN)
  buffer,                   \* frames held by self._buffer, oldest first
  episode_steps,            \* self._episode_steps
  no_op_actions,            \* self._no_op_actions (None until episode_start)
  syncLog,                  \* history: the sync events, in order
  started,                  \* history: an episode_start call has completed
  calls,                    \* history: draw_action calls since that episode_start
  fresh,                    \* history: buffered frames pushed since the latest
                            \* episode_start call (None before the first call)
  last,                     \* history: what the last call did
  pc,                       \* "agent", or the position inside fit in SpecNextQ
  sample,                   \* SpecNextQ: the sample and the predictions for it
  q_next,                   \* SpecNextQ: what _next_q returned for the sample
  w,                        \* SpecNextQ: WeightedDQN's weight vector for the sample
  y                         \* SpecNextQ: the bootstrap target of the sample

agentVars == <<params, names, initialized, replay_size, n_updates, train, target,
               n_fitted_target_models>>
episodeVars == <<buffer, episode_steps, no_op_actions, started, calls, fresh>>
nextQVars == <<pc, sample, q_next, w, y>>
vars == <<agentVars, syncLog, episodeVars, last, nextQVars>>

----------------------------------------------------------------------------
(* Bounds of the model. *)

MaxN == 3          \* largest ensemble of SpecFit
MaxFreq == 2       \* largest target_update_frequency
MaxUpdates == 6    \* fit(dataset, 1) calls that complete
MaxIter == 2       \* largest n_iterations passed to fit
MaxData == 1       \* largest dataset passed to fit
MaxReplay == 2     \* max_replay_size
BatchSize == 2     \* batch_size
MaxHistory == 2    \* largest history_length
MaxNoOp == 2       \* largest max_no_op_actions
MaxSteps == 3      \* draw_action calls per episode
NumObs == 2        \* distinct observations an environment hands to draw_action
NumActions == 2    \* mdp_info['action_space'].n
MaxSlots == 2      \* largest ensemble of SpecNextQ
MaxQ == 0          \* predictions range over -1 .. MaxQ
MaxReward == 2     \* rewards range over -MaxReward .. MaxReward

(* Program constants. *)

None == -1                 \* Python's None; python 2 orders None below every int
DefaultMaxNoOp == 0        \* alg_params.get('max_no_op_actions', 0)
DefaultHistory == 1        \* alg_params.get('history_length', 1)
NoOpActionValue == 0       \* alg_params.get('no_op_action_value', 0)
GammaNum == 9              \* gamma = 0.9 = GammaNum / GammaDen
GammaDen == 10
DefaultClip == TRUE         \* alg_params.get('clip_reward', True)

Variants == {"DQN", "DoubleDQN", "AveragedDQN", "WeightedDQN"}
Averaging == {"AveragedDQN", "WeightedDQN"}
Actions == 0 .. (NumActions - 1)
Obs == 1 .. NumObs
QVals == -1 .. MaxQ
QVecs == [Actions -> QVals]
Rewards == (0 - MaxReward) .. MaxReward

Min(a, b) == IF a < b THEN a ELSE b
Max(a, b) == IF a < b THEN b ELSE a

----------------------------------------------------------------------------
(* Construction: DQN.__init__ and AveragedDQN.__init__. *)

\* n_approximators == 1 builds a single target model (lines 46-48); the
\* averaging variants assert an Ensemble (line 185), which takes more than one.
Configs(variants, freqs, sizes, histories, noops, clips) ==
  { c \in [variant : variants, target_update_frequency : freqs,
           n_approximators : sizes \cup {1}, history_length : histories,
           max_no_op_actions : noops, clip_reward : clips] :
      (c.variant \in Averaging) <=> (c.n_approximators > 1) }

Slots(c) == 0 .. (c.n_approximators - 1)

\* what a call reports; every action fills in the fields it is about
Idle(op) ==
  [op |-> op, ok |-> TRUE, n_iterations |-> None, added |-> 0, sampled |-> FALSE,
   read |-> {}, read_params |-> {}, read_train |-> FALSE, fitted |-> FALSE,
   written |-> {},
   pushed |-> None, no_op |-> FALSE, policy_updates |-> 0, policy_draws |-> 0,
   buffer_reads |-> 0, extended_state |-> <<>>, action |-> None]

\* lines 36 and 38: the object each of the two local names is bound to; both
\* are bound to the dict params['approximator_params'], neither to a copy
apprx_params_train == "approximator_params"
apprx_params_target == "approximator_params"

\* lines 37 and 39: the two assignments to ['params']['name'], in order
NamesAssigned ==
  LET objects == {apprx_params_train, apprx_params_target}
      unset == [o \in objects |-> "unset"]
      first == [unset EXCEPT ![apprx_params_train] = "train"]
  IN  [first EXCEPT ![apprx_params_target] = "target"]

\* lines 40-43: the name each Regressor is constructed with
RegressorNames ==
  [train |-> NamesAssigned[apprx_params_train],
   target |-> NamesAssigned[apprx_params_target]]

Construct(c) ==
  /\ params = c
  /\ names = RegressorNames
  /\ initialized = FALSE
  /\ replay_size = 0
  /\ n_updates = 0
  /\ train = 0
  /\ target = [i \in Slots(c) |-> 0]
  /\ n_fitted_target_models = IF c.variant \in Averaging THEN 1 ELSE None
  /\ buffer = <<>>
  /\ episode_steps = 0
  /\ no_op_actions = None
  /\ syncLog = <<>>
  /\ started = FALSE
  /\ calls = 0
  /\ fresh = None
  /\ last = Idle("__init__")

NoSample ==
  [absorbing |-> FALSE, any_absorbing |-> FALSE,
   q_train |-> [a \in Actions |-> 0],
   q_target |-> [i \in {0} |-> [a \in Actions |-> 0]],
   reward |-> 0]

NextQIdle ==
  /\ pc = "agent"
  /\ sample = NoSample
  /\ q_next = [num |-> 0, den |-> 1]
  /\ w = [a \in Actions |-> [num |-> 0, den |-> 1]]
  /\ y = [num |-> 0, den |-> 1]

----------------------------------------------------------------------------
(* The collaborators of the agent that are not part of dqn.py. *)

\* ReplayMemory.add: append, overwriting the oldest entries once full
ReplayAdd(size, d) == Min(size + d, MaxReplay)

\* ReplayMemory.get(batch_size) fails when fewer transitions are stored
ReplayCanGet(size, batch_size) == size >= batch_size

\* Buffer.add: push, evicting the oldest frame once at capacity
BufferAdd(buf, frame, size) ==
  IF Len(buf) < size THEN Append(buf, frame) ELSE Append(Tail(buf), frame)

\* Buffer.get fails until the buffer holds `size` frames
BufferFull(buf, size) == Len(buf) = size

----------------------------------------------------------------------------
(* fit and the target-update policy. *)

\* fault: n_iterations == 0 not skipped
FitModeNoSkip(n_iterations) ==
  IF n_iterations \in {0, 1} THEN "one" ELSE "assert"

\* fault: the assert of line 69 dropped
FitModeNoAssert(n_iterations) == IF n_iterations = 0 THEN "skip" ELSE "one"

\* the branch of fit taken for n_iterations (lines 66-69)
FitMode(n_iterations) ==
  IF n_iterations = 0 THEN "skip"
  ELSE IF n_iterations = 1 THEN "one" ELSE "assert"

\* fault: the dataset appended only after the assert passed
AddedAfterAssert(mode, d) == IF mode = "assert" THEN 0 ELSE d

\* the transitions a call appends: line 65 precedes the branch on
\* n_iterations (lines 66-69), so the whole dataset in every mode
Added(mode, d) == d

\* fault: the condition taken on the count before the increment
SyncDueBefore(n, f) == (n - 1) % f = 0

\* the condition of _update_target (lines 92, 188)
SyncDue(n, f) == n % f = 0

\* fault: the update count taken for the sync count
SlotIdxOfUpdate(n, f, N) == n % N

\* fault: the round robin started at slot 0
SlotIdxFromZero(n, f, N) == ((n \div f) - 1) % N

\* idx of AveragedDQN._update_target (lines 189-190); python 2 integer division
SlotIdx(n, f, N) == (n \div f) % N

\* fault: a full sync of the ensemble
SlotsWrittenAll(c, n) == Slots(c)

\* the slots one sync writes: the single target model of DQN and DoubleDQN
\* (lines 93-94), one slot of the ensemble of the averaging variants (191-192)
SlotsWritten(c, n) ==
  IF c.variant \in Averaging
  THEN {SlotIdx(n, c.target_update_frequency, c.n_approximators)}
  ELSE {0}

\* fault: the count not capped at the ensemble size
NextFittedUncapped(nf, N) == nf + 1

\* lines 194-195
NextFitted(nf, N) == IF nf < N THEN nf + 1 ELSE nf

\* fault: every slot of the ensemble averaged
ReadSlotsAll(c, nf) == Slots(c)

\* the target slots _next_q predicts with (lines 108, 168, 199-200, 222-224)
ReadSlots(c, nf) == IF c.variant \in Averaging THEN 0 .. (nf - 1) ELSE {0}

\* DoubleDQN._next_q also predicts with the train approximator (line 163)
ReadsTrain(c) == c.variant = "DoubleDQN"

\* the parameters of the target slots _next_q predicts with (line 77)
ReadParams(c, nf, tgt) == {tgt[i] : i \in ReadSlots(c, nf)}

\* fault: the target updated before the train approximator is fitted
SyncedParamsStale(before, after) == before

\* the train parameters _update_target copies: line 84 follows
\* approximator.fit (line 80), so those after the fit
SyncedParams(before, after) == after

\* _update_target, after n_updates became n and the train parameters tr
UpdateTarget(c, n, tr) ==
  IF SyncDue(n, c.target_update_frequency)
  THEN /\ target' = [i \in Slots(c) |->
                        IF i \in SlotsWritten(c, n) THEN tr ELSE target[i]]
       /\ n_fitted_target_models' =
            IF c.variant \in Averaging
            THEN NextFitted(n_fitted_target_models, c.n_approximators)
            ELSE n_fitted_target_models
       /\ syncLog' = Append(syncLog, [at |-> n, slots |-> SlotsWritten(c, n),
                                      params |-> tr])
  ELSE UNCHANGED <<target, n_fitted_target_models, syncLog>>

Written(c, n) ==
  IF SyncDue(n, c.target_update_frequency) THEN SlotsWritten(c, n) ELSE {}

\* DQN.initialize (lines 114-124)
Initialize ==
  /\ pc = "agent"
  /\ initialized' = TRUE
  /\ last' = Idle("initialize")
  /\ UNCHANGED <<params, names, replay_size, n_updates, train, target,
                 n_fitted_target_models, syncLog, episodeVars, nextQVars>>

\* DQN.fit (lines 56-84) with a dataset of d transitions
Fit(n_iterations, d) ==
  LET mode == FitMode(n_iterations)
      size == ReplayAdd(replay_size, Added(mode, d))
      call == [Idle("fit") EXCEPT !.n_iterations = n_iterations]
  IN
  /\ pc = "agent"
  /\ (initialized /\ mode = "one" /\ ReplayCanGet(size, BatchSize))
        => n_updates < MaxUpdates
  /\ IF ~initialized
     THEN \* the replay memory refuses add before initialize
          /\ last' = [call EXCEPT !.ok = FALSE]
          /\ UNCHANGED <<replay_size, n_updates, train, target,
                         n_fitted_target_models, syncLog>>
     ELSE /\ replay_size' = size
          /\ IF mode = "skip"
             THEN /\ last' = [call EXCEPT !.added = d]
                  /\ UNCHANGED <<n_updates, train, target,
                                 n_fitted_target_models, syncLog>>
             ELSE IF mode = "assert" \/ ~ReplayCanGet(size, BatchSize)
             THEN \* AssertionError (line 69), or the failure of get (line 72)
                  /\ last' = [call EXCEPT !.ok = FALSE, !.added = d]
                  /\ UNCHANGED <<n_updates, train, target,
                                 n_fitted_target_models, syncLog>>
             ELSE /\ n_updates' = n_updates + 1
                  /\ train' = n_updates + 1
                  /\ UpdateTarget(params, n_updates + 1,
                                  SyncedParams(train, n_updates + 1))
                  /\ last' = [call EXCEPT
                                !.added = d, !.sampled = TRUE,
                                !.read = ReadSlots(params, n_fitted_target_models),
                                !.read_params =
                                  ReadParams(params, n_fitted_target_models, target),
                                !.read_train = ReadsTrain(params),
                                !.fitted = TRUE,
                                !.written = Written(params, n_updates + 1)]
  /\ UNCHANGED <<params, names, initialized, episodeVars, nextQVars>>

----------------------------------------------------------------------------
(* episode_start and draw_action. *)

\* np.random.randint(low, high) draws from low .. high - 1 and raises
\* ValueError when that range is empty (lines 142-143)
RandInt(low, high) == low .. (high - 1)

\* fault: one no-op too many
TakeNoOpInclusive(steps, n) == steps <= n

\* the condition of draw_action (line 129); None < n is False for every n >= 0
TakeNoOp(steps, n) == steps < n

\* DQN.episode_start (lines 141-144)
EpisodeStart ==
  LET range == RandInt(params.history_length, params.max_no_op_actions + 1) IN
  /\ pc = "agent"
  /\ IF range = {}
     THEN /\ last' = [Idle("episode_start") EXCEPT !.ok = FALSE]
          /\ UNCHANGED <<buffer, episode_steps, no_op_actions, started, calls>>
     ELSE /\ no_op_actions' \in range
          /\ episode_steps' = 0
          /\ started' = TRUE
          /\ calls' = 0
          /\ last' = Idle("episode_start")
          /\ UNCHANGED buffer
  /\ fresh' = 0
  /\ UNCHANGED <<agentVars, syncLog, nextQVars>>

\* DQN.draw_action (lines 126-139); a is the action the policy would draw
DrawAction(state, a) ==
  LET buf == BufferAdd(buffer, state, params.history_length)
      call == [Idle("draw_action") EXCEPT !.pushed = state]
  IN
  /\ pc = "agent"
  /\ calls < MaxSteps
  /\ buffer' = buf
  /\ calls' = calls + 1
  /\ fresh' = IF fresh = None THEN None
              ELSE Min(fresh + 1, params.history_length)
  /\ IF TakeNoOp(episode_steps, no_op_actions)
     THEN /\ episode_steps' = episode_steps + 1
          /\ last' = [call EXCEPT !.no_op = TRUE, !.policy_updates = 1,
                                  !.action = NoOpActionValue]
     ELSE IF BufferFull(buf, params.history_length)
     THEN /\ episode_steps' = episode_steps + 1
          /\ last' = [call EXCEPT !.buffer_reads = 1, !.extended_state = buf,
                                  !.policy_draws = 1, !.action = a]
     ELSE \* Buffer.get fails: the frame stays pushed, the step is not counted
          /\ episode_steps' = episode_steps
          /\ last' = [call EXCEPT !.ok = FALSE, !.buffer_reads = 1]
  /\ UNCHANGED <<agentVars, syncLog, no_op_actions, started, nextQVars>>

----------------------------------------------------------------------------
(* The specifications of the agent. *)

FitConfigs ==
  Configs(Variants, 1 .. MaxFreq, 2 .. MaxN, {DefaultHistory}, {DefaultMaxNoOp},
          {DefaultClip})

EpisodeConfigs ==
  Configs({"DQN"}, {1}, {}, 1 .. MaxHistory, 0 .. MaxNoOp, {DefaultClip})

AllConfigs ==
  Configs(Variants, 1 .. MaxFreq, 2 .. MaxN, 1 .. MaxHistory, 0 .. MaxNoOp,
          {DefaultClip})

InitFit == NextQIdle /\ \E c \in FitConfigs : Construct(c)

InitEpisode == NextQIdle /\ \E c \in EpisodeConfigs : Construct(c)

Init == NextQIdle /\ \E c \in AllConfigs : Construct(c)

NextFit ==
  \/ Initialize
  \/ \E n \in 0 .. MaxIter, d \in 0 .. MaxData : Fit(n, d)

NextEpisode ==
  \/ EpisodeStart
  \/ \E state \in Obs, a \in Actions : DrawAction(state, a)

Next == NextFit \/ NextEpisode

SpecFit == InitFit /\ [][NextFit]_vars

SpecEpisode == InitEpisode /\ [][NextEpisode]_vars

Spec == Init /\ [][Next]_vars

----------------------------------------------------------------------------
(* _next_q of the four variants, for one sample of the minibatch.  s holds  *)
(* the predictions of the approximators for the sample's next state, its    *)
(* absorbing flag, and any_absorbing: np.any(absorbing) over the minibatch. *)

Rat(n, d) == [num |-> n, den |-> d]
RatEq(a, b) == a.num * b.den = b.num * a.den
RatLe(a, b) == a.num * b.den <= b.num * a.den
RatAdd(a, b) == Rat(a.num * b.den + b.num * a.den, a.den * b.den)
RatMul(a, b) == Rat(a.num * b.num, a.den * b.den)

\* np.max and np.argmax (the first index of the maximum) over the actions
ArgMax(q) == CHOOSE a \in Actions :
               /\ \A b \in Actions : q[b] <= q[a]
               /\ \A b \in Actions : q[b] = q[a] => a <= b

MaxOf(q) == q[ArgMax(q)]

\* q *= 1 - absorbing, under `if np.any(absorbing)` (lines 109-110)
Mask(q, s) ==
  IF s.any_absorbing
  THEN [a \in Actions |-> q[a] * (1 - (IF s.absorbing THEN 1 ELSE 0))]
  ELSE q

\* DQN._next_q (lines 96-112)
DQN_next_q(s) == Rat(MaxOf(Mask(s.q_target[0], s)), 1)

\* fault: the action selected with the target approximator
DoubleDQN_next_q_OwnArgMax(s) ==
  LET max_a == ArgMax(Mask(s.q_target[0], s)) IN Rat(s.q_target[0][max_a], 1)

\* DoubleDQN._next_q (lines 162-168)
DoubleDQN_next_q(s) ==
  LET max_a == ArgMax(Mask(s.q_train, s)) IN Rat(s.q_target[0][max_a], 1)

RECURSIVE SumSlots(_, _, _)
SumSlots(q, a, k) == IF k = 0 THEN 0 ELSE SumSlots(q, a, k - 1) + q[k - 1][a]

\* np.mean over the first nf slots, per action (lines 199-201, 227):
\* the numerators; the mean is Sums / nf
Sums(s, nf) == [a \in Actions |-> SumSlots(s.q_target, a, nf)]

\* AveragedDQN._next_q (lines 197-205)
AveragedDQN_next_q(s, nf) == Rat(MaxOf(Mask(Sums(s, nf), s)), nf)

\* count of WeightedDQN._next_q (lines 228-231)
Count(s, nf) ==
  [a \in Actions |->
     Cardinality({i \in 0 .. (nf - 1) : ArgMax(s.q_target[i]) = a})]

\* fault: the counts divided by the ensemble size
WeightsOverAll(c, s, nf) ==
  [a \in Actions |-> Rat(Count(s, nf)[a], c.n_approximators)]

\* w of WeightedDQN._next_q (line 232)
Weights(c, s, nf) == [a \in Actions |-> Rat(Count(s, nf)[a], nf)]

RECURSIVE Dot(_, _, _)
Dot(u, v, k) ==
  IF k = 0 THEN Rat(0, 1) ELSE RatAdd(Dot(u, v, k - 1), RatMul(u[k - 1], v[k - 1]))

Means(s, nf) == [a \in Actions |-> Rat(Sums(s, nf)[a], nf)]

\* WeightedDQN._next_q (lines 218-238)
WeightedDQN_next_q(c, s, nf) ==
  LET W == Dot(Weights(c, s, nf), Means(s, nf), NumActions) IN
  IF s.any_absorbing
  THEN Rat(W.num * (1 - (IF s.absorbing THEN 1 ELSE 0)), W.den)
  ELSE W

NextQOf(c, s, nf) ==
  CASE c.variant = "DQN" -> DQN_next_q(s)
    [] c.variant = "DoubleDQN" -> DoubleDQN_next_q(s)
    [] c.variant = "AveragedDQN" -> AveragedDQN_next_q(s, nf)
    [] c.variant = "WeightedDQN" -> WeightedDQN_next_q(c, s, nf)

\* np.clip(reward, -1, 1) when clip_reward is set (lines 74-75)
Clip(c, reward) == IF c.clip_reward THEN Max(-1, Min(1, reward)) ELSE reward

\* q = reward + self._gamma * q_next (line 78)
Bootstrap(c, reward, q) ==
  RatAdd(Rat(Clip(c, reward), 1), RatMul(Rat(GammaNum, GammaDen), q))

----------------------------------------------------------------------------
(* SpecNextQ: one sample through lines 71-78 of fit. *)

\* the agent after initialize and k completed fit(dataset, 1) calls
SyncsUpTo(c, k) == {j \in 1 .. k : SyncDue(j, c.target_update_frequency)}

RECURSIVE FittedAfter(_, _)
FittedAfter(c, m) ==
  IF m = 0 THEN 1 ELSE NextFitted(FittedAfter(c, m - 1), c.n_approximators)

TargetAfter(c, k) ==
  [i \in Slots(c) |->
     LET S == {j \in SyncsUpTo(c, k) : i \in SlotsWritten(c, j)} IN
     IF S = {} THEN 0 ELSE CHOOSE j \in S : \A h \in S : h <= j]

SyncLogAfter(c, k) ==
  [m \in 1 .. (k \div c.target_update_frequency) |->
     [at |-> m * c.target_update_frequency,
      slots |-> SlotsWritten(c, m * c.target_update_frequency),
      params |-> m * c.target_update_frequency]]

AfterUpdates(c, k) ==
  /\ params = c
  /\ names = RegressorNames
  /\ initialized = TRUE
  /\ replay_size = MaxReplay
  /\ n_updates = k
  /\ train = k
  /\ target = TargetAfter(c, k)
  /\ n_fitted_target_models =
       IF c.variant \in Averaging
       THEN FittedAfter(c, Cardinality(SyncsUpTo(c, k)))
       ELSE None
  /\ syncLog = SyncLogAfter(c, k)
  /\ buffer = <<>>
  /\ episode_steps = 0
  /\ no_op_actions = None
  /\ started = FALSE
  /\ calls = 0
  /\ fresh = None
  /\ last = [Idle("fit") EXCEPT !.n_iterations = 1, !.sampled = TRUE]

\* the states of SpecFit are these (with any replay_size and last)
FitStateIsAfterUpdates ==
  /\ names = RegressorNames
  /\ train = n_updates
  /\ target = TargetAfter(params, n_updates)
  /\ syncLog = SyncLogAfter(params, n_updates)
  /\ params.variant \in Averaging =>
       n_fitted_target_models =
         FittedAfter(params, Cardinality(SyncsUpTo(params, n_updates)))

\* SpecNextQ starts in the middle of a fit call: an ensemble that is being
\* filled (one sync per update), or a single target between two syncs
NextQConfigs ==
  { c \in Configs(Variants, {1, 2}, 2 .. MaxSlots, {DefaultHistory},
                  {DefaultMaxNoOp}, BOOLEAN) :
      (c.variant \in Averaging) <=> (c.target_update_frequency = 1) }

NextQUpdates(c) ==
  IF c.variant \in Averaging THEN 0 .. (c.n_approximators - 1) ELSE {0, 1}

\* equal parameters predict equal Q-vectors: a prediction per parameter
\* version held by the approximators
Versions(c, tr, tg) ==
  {tg[i] : i \in Slots(c)} \cup (IF ReadsTrain(c) THEN {tr} ELSE {})

Samples(c, tr, tg) ==
  { [absorbing |-> f[1], any_absorbing |-> f[2],
     q_train |-> IF ReadsTrain(c) THEN pred[tr] ELSE NoSample.q_train,
     q_target |-> [i \in Slots(c) |-> pred[tg[i]]],
     reward |-> 0] :
    pred \in [Versions(c, tr, tg) -> QVecs],
    f \in {<<FALSE, FALSE>>, <<FALSE, TRUE>>, <<TRUE, TRUE>>} }

InitNextQ ==
  /\ \E c \in NextQConfigs : \E k \in NextQUpdates(c) : AfterUpdates(c, k)
  /\ sample \in Samples(params, train, target)
  /\ pc = "sampled"
  /\ q_next = Rat(0, 1)
  /\ w = [a \in Actions |-> Rat(0, 1)]
  /\ y = Rat(0, 1)

\* line 77
CallNextQ ==
  /\ pc = "sampled"
  /\ pc' = "next_q"
  /\ q_next' = NextQOf(params, sample, n_fitted_target_models)
  /\ w' = IF params.variant = "WeightedDQN"
          THEN Weights(params, sample, n_fitted_target_models)
          ELSE w
  /\ UNCHANGED <<agentVars, syncLog, episodeVars, last, sample, y>>

\* line 78; the predictions are locals of _next_q and are gone by now
Target(reward) ==
  /\ pc = "next_q"
  /\ pc' = "target"
  /\ sample' = [NoSample EXCEPT !.absorbing = sample.absorbing,
                                !.any_absorbing = sample.any_absorbing,
                                !.reward = reward]
  /\ y' = Bootstrap(params, reward, q_next)
  /\ w' = [a \in Actions |-> Rat(0, 1)]
  /\ UNCHANGED <<agentVars, syncLog, episodeVars, last, q_next>>

NextNextQ == CallNextQ \/ \E reward \in Rewards : Target(reward)

SpecNextQ == InitNextQ /\ [][NextNextQ]_vars

----------------------------------------------------------------------------
(* Properties of fit and the target-update policy, under SpecFit. *)

IsFit1 == last'.op = "fit" /\ last'.ok /\ last'.n_iterations = 1
IsFit0 == last'.op = "fit" /\ last'.ok /\ last'.n_iterations = 0
IsSync == syncLog' # syncLog
SyncTimes == {syncLog[k].at : k \in 1 .. Len(syncLog)}
Synced == UNION {syncLog[k].slots : k \in 1 .. Len(syncLog)}

C1_Step ==
  params.variant = "DQN" =>
    /\ IsFit1 =>
         /\ n_updates' = n_updates + 1
         /\ (target'[0] = train') <=>
              (n_updates' % params.target_update_frequency = 0)
         /\ target'[0] # train' => target' = target
    /\ IsFit0 => n_updates' = n_updates /\ target' = target /\ ~IsSync

C1_Syncs ==
  params.variant = "DQN" =>
    SyncTimes = {u \in 1 .. n_updates : u % params.target_update_frequency = 0}

\* C1: in base DQN every completed fit(dataset, 1) adds exactly 1 to
\* n_updates and every fit(dataset, 0) leaves it alone; a fit(dataset, 1)
\* copies the train parameters into the target iff n_updates, after its
\* increment, is a multiple of target_update_frequency, so the syncs so far
\* are at exactly the multiples of the frequency (2 and 4 of 5 updates with
\* frequency 2).
C1_UpdatesAndSyncs == [][C1_Step]_vars /\ []C1_Syncs

C1_Witness ==
  /\ params.variant = "DQN"
  /\ params.target_update_frequency = 2
  /\ n_updates = 5
  /\ SyncTimes = {2, 4}
  /\ last.op = "fit" /\ last.n_iterations = 1 /\ last.ok
  /\ target[0] = 4 /\ train = 5

\* C3, as stated: in the averaging variants the k-th sync event overwrites
\* slot (k-1) mod N.
C3_SlotFromZero ==
  params.variant \in Averaging =>
    \A k \in 1 .. Len(syncLog) :
      syncLog[k].slots = {(k - 1) % params.n_approximators}

\* C3, amended: in the averaging variants the k-th sync event overwrites
\* slot k mod N (the first sync writes slot 1, and slot 0 is first written
\* by sync N), and that slot then holds the parameters copied by that sync.
C3_SlotOfSync ==
  params.variant \in Averaging =>
    /\ \A k \in 1 .. Len(syncLog) :
         syncLog[k].slots = {k % params.n_approximators}
    /\ Len(syncLog) > 0 =>
         target[Len(syncLog) % params.n_approximators]
           = syncLog[Len(syncLog)].params

C3_Witness ==
  /\ params.variant = "AveragedDQN"
  /\ params.n_approximators = 3
  /\ Len(syncLog) = 4
  /\ syncLog[1].slots = {1} /\ syncLog[3].slots = {0} /\ syncLog[4].slots = {1}

C4_Step ==
  (params.variant \in Averaging /\ IsSync) =>
    LET idx == (n_updates' \div params.target_update_frequency)
                 % params.n_approximators
    IN /\ target'[idx] = train'
       /\ \A i \in Slots(params) \ {idx} : target'[i] = target[i]
       /\ syncLog' = Append(syncLog, [at |-> n_updates', slots |-> {idx},
                                      params |-> train'])

C4_Windows ==
  params.variant \in Averaging =>
    LET N == params.n_approximators IN
    \A k \in 1 .. (Len(syncLog) - N + 1) :
      /\ \A j \in k .. (k + N - 1) : Cardinality(syncLog[j].slots) = 1
      /\ UNION {syncLog[j].slots : j \in k .. (k + N - 1)} = Slots(params)

\* C4: in the averaging variants a sync event overwrites exactly one slot,
\* idx = (n_updates / target_update_frequency) mod N, with the current train
\* parameters and leaves every other slot as it was; any N consecutive sync
\* events overwrite every slot 0..N-1 exactly once.
C4_OneSlotRoundRobin == [][C4_Step]_vars /\ []C4_Windows

C4_Witness ==
  /\ params.variant = "WeightedDQN"
  /\ params.n_approximators = 3
  /\ params.target_update_frequency = 2
  /\ Len(syncLog) = 3
  /\ last.op = "fit" /\ last.written = {0}
  /\ target = [i \in 0 .. 2 |-> IF i = 0 THEN 6 ELSE 2 * i]

\* C5: in the averaging variants n_fitted_target_models is 1 after
\* construction and min(1 + k, N) after k sync events, so it grows by one
\* per sync until it is N, stays there, and is always within 1..N.
C5_FittedCount ==
  params.variant \in Averaging =>
    /\ n_fitted_target_models
         = Min(1 + Len(syncLog), params.n_approximators)
    /\ 1 <= n_fitted_target_models
    /\ n_fitted_target_models <= params.n_approximators

C5_Witness ==
  /\ params.variant = "AveragedDQN"
  /\ params.n_approximators = 3
  /\ Len(syncLog) = 4
  /\ n_fitted_target_models = 3

\* C8: fit called with n_iterations other than 0 or 1 raises, and samples no
\* minibatch, fits nothing, leaves n_updates alone and syncs no target.
C8_BadIterationsFail ==
  [][(last'.op = "fit" /\ last'.n_iterations \notin {0, 1}) =>
       /\ ~last'.ok /\ ~last'.sampled /\ ~last'.fitted /\ last'.written = {}
       /\ UNCHANGED <<n_updates, train, target, n_fitted_target_models,
                      syncLog>>]_vars

C8_Witness ==
  /\ last.op = "fit" /\ last.n_iterations = 2 /\ ~last.ok
  /\ initialized
  /\ replay_size >= BatchSize
  /\ n_updates = 1

C9_Step ==
  (params.variant \in Averaging /\ last'.op = "fit" /\ last'.sampled) =>
    last'.read = {i \in Slots(params) : i < n_fitted_target_models}

C9_Slots ==
  params.variant \in Averaging =>
    /\ \A i \in 1 .. (n_fitted_target_models - 1) : i \in Synced
    /\ \A i \in Slots(params) : i >= n_fitted_target_models => i \notin Synced

\* C9: in the averaging variants _next_q predicts with exactly the slots of
\* index below n_fitted_target_models; every such slot other than slot 0 has
\* been overwritten by a sync, and no slot of index n_fitted_target_models
\* or above has.
C9_ReadsFittedSlots == [][C9_Step]_vars /\ []C9_Slots

C9_Witness ==
  /\ params.variant = "AveragedDQN"
  /\ params.n_approximators = 3
  /\ n_fitted_target_models = 2
  /\ last.op = "fit" /\ last.read = {0, 1}
  /\ Synced = {1}

----------------------------------------------------------------------------
(* Properties of episode_start and draw_action, under SpecEpisode. *)

\* C6, as stated: for every history_length >= 1 and max_no_op_actions >= 0,
\* the defaults included, episode_start completes and leaves
\* history_length <= no_op_actions <= max_no_op_actions and episode_steps = 0.
C6_EpisodeStartCompletes ==
  last.op = "episode_start" =>
    /\ last.ok
    /\ params.history_length <= no_op_actions
    /\ no_op_actions <= params.max_no_op_actions
    /\ episode_steps = 0

C7_Step ==
  (started /\ last'.op = "draw_action") =>
    /\ buffer' # <<>> /\ buffer'[Len(buffer')] = last'.pushed
    /\ episode_steps' = episode_steps + 1
    /\ IF calls < no_op_actions
       THEN /\ last'.action = NoOpActionValue
            /\ last'.policy_updates = 1
            /\ last'.buffer_reads = 0
            /\ last'.policy_draws = 0
       ELSE /\ last'.ok
            /\ last'.buffer_reads = 1
            /\ last'.extended_state = buffer'
            /\ Len(last'.extended_state) = params.history_length
            /\ last'.policy_draws = 1

\* C7: in an episode whose episode_start drew no_op_actions = n, each of the
\* first n draw_action calls returns the no-op action, calls policy.update
\* once and neither reads the frame buffer nor asks the policy; every later
\* call reads the extended state from the frame buffer and hands it to the
\* policy; every call pushes its state and adds 1 to episode_steps, which
\* therefore counts the draw_action calls since episode_start.
C7_NoOpThenPolicy ==
  [][C7_Step]_vars /\ [](started => episode_steps = calls)

C7_Witness ==
  /\ started
  /\ params.history_length = 2
  /\ no_op_actions = 2
  /\ calls = 3 /\ episode_steps = 3
  /\ last.op = "draw_action" /\ last.policy_draws = 1 /\ last.action = 1

----------------------------------------------------------------------------
(* Properties of _next_q, under SpecNextQ. *)

\* C2, as stated: in every variant _next_q returns exactly 0 for a sample
\* whose absorbing flag is set, so that the sample's bootstrap target is its
\* (possibly clipped) reward.
C2_AbsorbingIsZero ==
  sample.absorbing =>
    /\ pc = "next_q" => q_next.num = 0
    /\ pc = "target" => RatEq(y, Rat(Clip(params, sample.reward), 1))

FittedSlots == 0 .. (n_fitted_target_models - 1)

RECURSIVE SumW(_)
SumW(k) == IF k = 0 THEN Rat(0, 1) ELSE RatAdd(SumW(k - 1), w[k - 1])

\* C10: for WeightedDQN and a sample that is not absorbing, the weights
\* w[a] = (fitted slots whose argmax is a) / n_fitted_target_models are not
\* negative and sum to 1, so the value lies between the least and the
\* greatest per-action mean; when every fitted slot has the same argmax a*,
\* the value is the mean Q at a*, which is what AveragedDQN._next_q returns
\* for the same predictions.
C10_WeightedIsConvex ==
  (pc = "next_q" /\ params.variant = "WeightedDQN" /\ ~sample.absorbing) =>
    LET nf == n_fitted_target_models
        mean == [a \in Actions |-> Rat(SumSlots(sample.q_target, a, nf), nf)]
    IN /\ \A a \in Actions :
            /\ w[a].den > 0 /\ w[a].num >= 0
            /\ w[a].num * nf
                 = w[a].den * Cardinality({i \in FittedSlots :
                                             ArgMax(sample.q_target[i]) = a})
       /\ RatEq(SumW(NumActions), Rat(1, 1))
       /\ \E a \in Actions : RatLe(mean[a], q_next)
       /\ \E a \in Actions : RatLe(q_next, mean[a])
       /\ \A a \in Actions :
            (\A i \in FittedSlots : ArgMax(sample.q_target[i]) = a) =>
              /\ RatEq(q_next, mean[a])
              /\ RatEq(q_next, AveragedDQN_next_q(sample, nf))

C10_Witness ==
  /\ pc = "next_q" /\ params.variant = "WeightedDQN" /\ ~sample.absorbing
  /\ n_fitted_target_models = 2
  /\ ArgMax(sample.q_target[0]) = 0 /\ ArgMax(sample.q_target[1]) = 1
  /\ RatEq(w[0], Rat(1, 2)) /\ RatEq(w[1], Rat(1, 2))
  /\ ~RatEq(q_next, AveragedDQN_next_q(sample, 2))

\* C11: for DoubleDQN and a sample that is not absorbing, _next_q returns
\* the target approximator's Q-value at the action that maximises the train
\* approximator's Q-vector, the lowest such action on ties.
C11_DoubleSelectsWithTrain ==
  (pc = "next_q" /\ params.variant = "DoubleDQN" /\ ~sample.absorbing) =>
    \E a \in Actions :
      /\ \A b \in Actions : sample.q_train[b] <= sample.q_train[a]
      /\ \A b \in Actions : b < a => sample.q_train[b] < sample.q_train[a]
      /\ q_next = Rat(sample.q_target[0][a], 1)

C11_Witness ==
  /\ pc = "next_q" /\ params.variant = "DoubleDQN"
  /\ ~sample.absorbing /\ sample.any_absorbing
  /\ sample.q_train[0] = sample.q_train[1]
  /\ sample.q_target[0][0] = -1 /\ sample.q_target[0][1] = 0
  /\ q_next = Rat(-1, 1)

----------------------------------------------------------------------------
(* Further properties of fit, under SpecFit. *)

\* C12, as stated: in the averaging variants n_fitted_target_models equals
\* the number of distinct slots overwritten by a sync since construction.
C12_FittedIsSyncedCount ==
  params.variant \in Averaging =>
    n_fitted_target_models = Cardinality(Synced)

\* C12, amended: in the averaging variants n_fitted_target_models equals the
\* number of distinct slots among slot 0, which counts from construction on,
\* and the slots overwritten by a sync; it is one more than the number of
\* synchronized slots until N sync events have occurred and equal to it
\* from then on.
C12_FittedCountsSlotZero ==
  params.variant \in Averaging =>
    /\ n_fitted_target_models = Cardinality(Synced \cup {0})
    /\ Len(syncLog) < params.n_approximators =>
         n_fitted_target_models = Cardinality(Synced) + 1
    /\ Len(syncLog) >= params.n_approximators =>
         n_fitted_target_models = Cardinality(Synced)

C12_Witness ==
  /\ params.variant = "AveragedDQN"
  /\ params.n_approximators = 3
  /\ Len(syncLog) = 2
  /\ Synced = {1, 2}
  /\ n_fitted_target_models = 3

SingleTarget == {"DQN", "DoubleDQN"}

C13_Lag ==
  params.variant \in SingleTarget =>
    LET f == params.target_update_frequency IN
    /\ target[0] = f * (n_updates \div f)
    /\ train - target[0] = n_updates % f
    /\ n_updates % f = 0 => target[0] = train

C13_Writes ==
  (params.variant \in SingleTarget /\ target' # target) =>
    /\ last'.op = "fit" /\ last'.fitted
    /\ n_updates' = n_updates + 1
    /\ n_updates' % params.target_update_frequency = 0
    /\ target'[0] = train'

\* C13: in DQN and DoubleDQN the target always holds the train parameters
\* as they were right after update number
\* target_update_frequency * floor(n_updates / target_update_frequency)
\* (the parameters of construction when that is 0): it equals the train
\* parameters at construction and right after each sync, lags them by
\* n_updates mod target_update_frequency updates, and is written by no step
\* other than a sync of the target-update policy.
C13_TargetLagsTrain == [][C13_Writes]_vars /\ []C13_Lag

C13_Witness ==
  /\ params.variant = "DoubleDQN"
  /\ params.target_update_frequency = 2
  /\ n_updates = 5
  /\ train = 5 /\ target[0] = 4
  /\ last.op = "fit" /\ last.fitted /\ last.written = {}

\* C14: fit(dataset, 0) appends the dataset to the replay memory and changes
\* nothing else: n_updates, the train parameters, every target slot and
\* n_fitted_target_models stay as they are and no sync is performed, also
\* when n_updates is a multiple of target_update_frequency (0 included).
C14_FitZeroOnlyAppends ==
  [][(initialized /\ last'.op = "fit" /\ last'.n_iterations = 0) =>
       /\ last'.ok /\ ~last'.sampled /\ ~last'.fitted /\ last'.written = {}
       /\ replay_size' = Min(replay_size + last'.added, MaxReplay)
       /\ UNCHANGED <<n_updates, train, target, n_fitted_target_models,
                      syncLog, initialized, params>>]_vars

C14_Witness ==
  /\ params.variant = "AveragedDQN"
  /\ last.op = "fit" /\ last.n_iterations = 0 /\ last.ok
  /\ last.added = 1 /\ replay_size = 1
  /\ n_updates = 0 /\ n_fitted_target_models = 1 /\ syncLog = <<>>

\* C15, as stated: whenever episode_start has been called before the first
\* draw_action of an episode, draw_action reads the frame buffer only when it
\* holds history_length frames (Buffer.get does not fail), and the extended
\* state handed to the policy holds only frames pushed in the current episode.
C15_ReadsCurrentEpisodeOnly ==
  (fresh # None /\ last.op = "draw_action" /\ last.buffer_reads = 1) =>
    /\ last.ok
    /\ last.extended_state = buffer
    /\ Len(buffer) = params.history_length
    /\ fresh = params.history_length

\* the same for the episodes whose episode_start completed
C15_AfterCompletedStart == started => C15_ReadsCurrentEpisodeOnly

\* C16: a fit call that fails, because n_iterations is unsupported or because
\* the replay memory holds fewer than batch_size transitions when sampled,
\* leaves n_updates, the train parameters, every target slot and
\* n_fitted_target_models as before the call, while the dataset passed to
\* it has been appended to the replay memory.
C16_FailedFitKeepsDataset ==
  [][(initialized /\ last'.op = "fit" /\ ~last'.ok) =>
       /\ \/ last'.n_iterations \notin {0, 1}
          \/ ~ReplayCanGet(replay_size', BatchSize)
       /\ replay_size' = Min(replay_size + last'.added, MaxReplay)
       /\ ~last'.fitted /\ last'.written = {}
       /\ UNCHANGED <<n_updates, train, target, n_fitted_target_models,
                      syncLog>>]_vars

C16_Witness ==
  /\ initialized
  /\ last.op = "fit" /\ ~last.ok /\ last.n_iterations = 1
  /\ last.added = 1 /\ replay_size = 1 /\ n_updates = 0 /\ train = 0

\* C17: one fit(dataset, 1) call appends to the replay memory, samples the
\* minibatch, computes next_q from the target parameters as they were before
\* the call, fits the train approximator, increments n_updates and then runs
\* the target-update policy: the bootstrap target of update u is computed
\* from target snapshots taken at or before update u - 1, and a sync
\* performed in update u copies the train parameters that include update u.
C17_Step ==
  IsFit1 =>
    /\ ReplayCanGet(Min(replay_size + last'.added, MaxReplay), BatchSize)
    /\ replay_size' = Min(replay_size + last'.added, MaxReplay)
    /\ last'.sampled
    /\ last'.read # {}
    /\ last'.read_params = {target[i] : i \in last'.read}
    /\ \A v \in last'.read_params : v <= n_updates' - 1
    /\ n_updates' = n_updates + 1
    /\ train' = n_updates'
    /\ (last'.written # {}) <=> (n_updates' % params.target_update_frequency = 0)
    /\ \A i \in last'.written : target'[i] = train'
    /\ \A i \in DOMAIN target : i \notin last'.written => target'[i] = target[i]

C17_OrderInsideFit == [][C17_Step]_vars

C17_Witness ==
  /\ params.variant = "DQN" /\ params.target_update_frequency = 1
  /\ last.op = "fit" /\ last.fitted /\ last.added = 0
  /\ n_updates = 3 /\ train = 3
  /\ last.read_params = {2}
  /\ last.written = {0} /\ target[0] = 3

RecentSyncs(N) == {syncLog[k] : k \in (Len(syncLog) - N + 1) .. Len(syncLog)}

\* C18: in AveragedDQN and WeightedDQN with N slots, once at least N syncs
\* have occurred, the N slots hold the train parameters copied by the N most
\* recent syncs, one snapshot per slot: none twice, none older.
C18_SlotsHoldRecentSyncs ==
  (params.variant \in Averaging /\ Len(syncLog) >= params.n_approximators) =>
    LET N == params.n_approximators IN
    /\ Cardinality(RecentSyncs(N)) = N
    /\ \A e \in RecentSyncs(N) :
         \E i \in Slots(params) : e.slots = {i} /\ target[i] = e.params
    /\ \A i \in Slots(params) :
         Cardinality({e \in RecentSyncs(N) : e.slots = {i}}) = 1
    /\ \A i, j \in Slots(params) : i # j => target[i] # target[j]

C18_Witness ==
  /\ params.variant = "WeightedDQN"
  /\ params.n_approximators = 3 /\ params.target_update_frequency = 1
  /\ Len(syncLog) = 4
  /\ target[0] = 3 /\ target[1] = 4 /\ target[2] = 2

----------------------------------------------------------------------------
(* Properties of the construction, under SpecFit. *)

\* C19, as stated: the train approximator is constructed with the name
\* 'train' and the target approximator with the name 'target'; the two
\* approximators never receive the same name.
C19_DistinctNames ==
  /\ names.train = "train"
  /\ names.target = "target"
  /\ names.train # names.target

====
